---- MODULE Spec2Model ----
(***************************************************************************)
(* Model of the approval-gated quoting workflow: the project record store  *)
(* (database.py), the command-line driver run_quotebot (main.py) and the   *)
(* Streamlit step machine (app.py).                                        *)
(***************************************************************************)
EXTENDS Integers, Sequences, FiniteSets, TLC

\* ---------------------------------------------------------------- bounds
MaxProjects == 2      \* size of the identifier pool uuid4 draws from
MaxModify == 2        \* modifications a human types over one behaviour

ProjectIds == 1..MaxProjects
NoProject == 0        \* st.session_state.project_id = None / no project yet

\* ---------------------------------------------------------------- values
\* A Python value or a database cell is a record [ty, j, fmt, q]:
\*   ty = "val" : a value that came out of a JSON parser, named j
\*   ty = "str" : a Python str / TEXT cell.  With q = 0 its content is the
\*                text of format fmt that denotes j; every json.dumps of a
\*                str wraps it in one more level of quotes (q + 1)
\*   ty = "NULL": the SQL NULL of a column that was never written
Val(j) == [ty |-> "val", j |-> j, fmt |-> "", q |-> 0]
Str(j, fmt) == [ty |-> "str", j |-> j, fmt |-> fmt, q |-> 0]
NULL == [ty |-> "NULL", j |-> "", fmt |-> "", q |-> 0]
PyNone == Val("None")

DictNames == {"D1", "D2", "Q_svc", "Q_prod", "Q_edit"}
IsDict(v) == v.ty = "val" /\ v.j \in DictNames       \* isinstance(data, dict)

\* truth value of `if x:` : None, the empty list and the empty str are falsy
Falsy(v) ==
  \/ v = PyNone
  \/ v = Val("L")
  \/ (v.ty = "str" /\ v.q = 0 /\ v.fmt = "raw" /\ v.j = "")

\* json.dumps(x): compact text of a parsed value, one more quoting of a str
json_dumps(v) ==
  IF v.ty = "val" THEN Str(v.j, "compact") ELSE [v EXCEPT !.q = @ + 1]

\* json.dumps(x, indent=2): a non-empty dict is spread over indented lines;
\* null, [] and strings print as in the compact form
json_dumps_indent(v) ==
  IF v.ty = "val"
    THEN Str(v.j, IF v.j \in DictNames THEN "indent2" ELSE "compact")
    ELSE [v EXCEPT !.q = @ + 1]

\* a variant that checks the text and hands it on as it is
json_loads_unparsed(s) == s

\* json.loads(s) raises JSONDecodeError unless s is JSON text
Parses(s) == s.ty = "str" /\ (s.q > 0 \/ s.fmt \in {"compact", "indent2", "typed"})
json_loads(s) == IF s.q > 0 THEN [s EXCEPT !.q = @ - 1] ELSE Val(s.j)

\* ------------------------------------------------- text
\* A text whose characters matter (an item name, a service name) is the
\* sequence of its characters.
UpperCase ==
  <<"A", "B", "C", "D", "E", "F", "G", "H", "I", "J", "K", "L", "M", "N",
    "O", "P", "Q", "R", "S", "T", "U", "V", "W", "X", "Y", "Z">>
LowerCase ==
  <<"a", "b", "c", "d", "e", "f", "g", "h", "i", "j", "k", "l", "m", "n",
    "o", "p", "q", "r", "s", "t", "u", "v", "w", "x", "y", "z">>

\* str.lower()
LowerChar(c) ==
  IF \E i \in DOMAIN UpperCase : UpperCase[i] = c
    THEN LowerCase[CHOOSE i \in DOMAIN UpperCase : UpperCase[i] = c]
    ELSE c
lower(s) == [i \in 1..Len(s) |-> LowerChar(s[i])]

\* `k in s` of two str: k occurs in s as a run of consecutive characters
Contains(s, k) ==
  \E i \in 0..(Len(s) - Len(k)) : \A n \in 1..Len(k) : s[i + n] = k[n]

KwInstallation ==
  <<"i", "n", "s", "t", "a", "l", "l", "a", "t", "i", "o", "n">>
KwService ==
  <<"s", "e", "r", "v", "i", "c", "e">>
KwTuneUp ==
  <<"t", "u", "n", "e", "-", "u", "p">>
KwRepair ==
  <<"r", "e", "p", "a", "i", "r">>

\* names of catalog entries as they appear on quote lines
ItemPowerUnit ==
  <<"P", "P", "6", "5", "0">>
ItemInstallation ==
  <<"N", "e", "w", "_", "S", "y", "s", "t", "e", "m", "_", "I", "n", "s",
    "t", "a", "l", "l", "a", "t", "i", "o", "n">>
ItemFilter ==
  <<"H", "E", "P", "A", "_", "F", "i", "l", "t", "e", "r">>

\* ------------------------------------------------- quote line items
\* final_quote.get("quote_items", []) and item.get("item", "") of each
QuoteItems(j) ==
  CASE j = "Q_svc" -> <<ItemPowerUnit, ItemInstallation>>
    [] j \in {"Q_prod", "Q_edit"} -> <<ItemPowerUnit, ItemFilter>>
    [] OTHER -> <<>>

\* "service" in s.lower() or "installation" in s.lower() or
\* "tune-up" in s.lower() or "repair" in s.lower()
HasKeyword(s) ==
  \/ Contains(lower(s), KwService)
  \/ Contains(lower(s), KwInstallation)
  \/ Contains(lower(s), KwTuneUp)
  \/ Contains(lower(s), KwRepair)

\* quote.get("subtotal"), quote.get("shipping") and
\* quote.get("total_estimated_cost") of the quotes of this model, in cents
QuoteNames == {"Q_svc", "Q_prod", "Q_edit"}
QuoteAmounts(j) ==
  CASE j = "Q_svc" -> [subtotal |-> 195000, shipping |-> 5000, total |-> 200000]
    [] j = "Q_prod" -> [subtotal |-> 127500, shipping |-> 5000, total |-> 132500]
    [] j = "Q_edit" -> [subtotal |-> 127500, shipping |-> 5000, total |-> 200000]

\* a variant that looks at the first line item only
FilterServices_First(items) ==
  IF items # <<>> /\ HasKeyword(Head(items)) THEN <<Head(items)>> ELSE <<>>

\* [name for item in quote_items if <name has a keyword>]
RECURSIVE FilterServices(_)
FilterServices(items) ==
  IF items = <<>> THEN <<>>
  ELSE IF HasKeyword(Head(items))
    THEN <<Head(items)>> \o FilterServices(Tail(items))
    ELSE FilterServices(Tail(items))

\* ", ".join(service_types_requested)
RECURSIVE JoinNames(_)
JoinNames(names) ==
  IF names = <<>> THEN <<>>
  ELSE IF Len(names) = 1 THEN names[1]
  ELSE names[1] \o <<",", " ">> \o JoinNames(Tail(names))

\* ------------------------------------------------- dates
\* a datetime.date is <<year, month, day>>; str(date) prints the same three
\* numbers as YYYY-MM-DD
IsLeap(y) == (y % 4 = 0 /\ y % 100 # 0) \/ y % 400 = 0
DaysInMonth(y, m) ==
  IF m = 2 THEN (IF IsLeap(y) THEN 29 ELSE 28)
  ELSE IF m \in {4, 6, 9, 11} THEN 30 ELSE 31
NextDay(t) ==
  IF t[3] < DaysInMonth(t[1], t[2]) THEN <<t[1], t[2], t[3] + 1>>
  ELSE IF t[2] < 12 THEN <<t[1], t[2] + 1, 1>>
  ELSE <<t[1] + 1, 1, 1>>

\* date + datetime.timedelta(days=n)
RECURSIVE AddDays(_, _)
AddDays(t, n) == IF n = 0 THEN t ELSE AddDays(NextDay(t), n - 1)

\* the two notes and the three time windows of check_availability_tool
NoteSlots == "These are preliminary availability slots. A representative will confirm exact timing."
NoteNone == "No specific service installation/consultation requested, so no availability slots needed."

Slot(date, time) == [date |-> date, time |-> time]

\* a variant that matches the keywords against the text as typed
check_availability_tool_cased(service_type, date_today) ==
  IF \/ Contains(service_type, KwInstallation) \/ Contains(service_type, KwService)
     \/ Contains(service_type, KwTuneUp) \/ Contains(service_type, KwRepair)
    THEN [available_slots |->
            <<Slot(AddDays(date_today, 3), "9:00 AM - 12:00 PM"),
              Slot(AddDays(date_today, 5), "1:00 PM - 4:00 PM"),
              Slot(AddDays(date_today, 7), "10:00 AM - 1:00 PM")>>,
          note |-> NoteSlots]
    ELSE [available_slots |-> <<>>, note |-> NoteNone]

\* check_availability_tool(service_type); date_today is what
\* datetime.date.today() returns during the call
check_availability_tool(service_type, date_today) ==
  IF \/ Contains(lower(service_type), KwInstallation)
     \/ Contains(lower(service_type), KwService)
     \/ Contains(lower(service_type), KwTuneUp)
     \/ Contains(lower(service_type), KwRepair)
    THEN [available_slots |->
            <<Slot(AddDays(date_today, 3), "9:00 AM - 12:00 PM"),
              Slot(AddDays(date_today, 5), "1:00 PM - 4:00 PM"),
              Slot(AddDays(date_today, 7), "10:00 AM - 1:00 PM")>>,
          note |-> NoteSlots]
    ELSE [available_slots |-> <<>>, note |-> NoteNone]

\* the availability dict as a value of the workflow: A_slots names the dict
\* with the three slots, A_none the dict with the empty slot list
AvailabilityValue(info) ==
  IF info.available_slots # <<>> THEN Val("A_slots") ELSE Val("A_none")

\* ---------------------------------------------------------------- statuses
TerminalStatuses ==
  {"completed", "aborted_by_human", "extraction_failed", "quote_failed",
   "email_draft_failed"}

\* ---------------------------------------------------------------- inputs
\* what the services return and what a human types: D1 an extracted-details
\* object, D2 another one; Q_svc a quote with an installation line, Q_prod a
\* quote of products only, Q_edit the text of Q_svc after a human put a
\* filter in place of the installation line, changed the subtotal and left
\* the total; L the list [], None the JSON null; "bad" text
\* that is not JSON; E1, E2 email texts
Requests == {"R1"}
ExtractOutcomes == {Val("D1"), PyNone}
QuoteOutcomes == {Val("Q_svc"), Val("Q_prod"), PyNone}
EmailOutcomes == {Str("E1", "raw")}
TypedDetails ==
  {Str("D2", "typed"), Str("None", "typed"), Str("bad", "raw")}
TypedQuote ==
  {Str("Q_edit", "typed"), Str("L", "typed"), Str("bad", "raw")}
TypedEmail == {Str("E2", "raw")}

\* ---------------------------------------------------------------- state
VARIABLES
  db,          \* the projects table: project_id -> row
  driver,      \* which front end runs: "cli" (main.py) or "app" (app.py)
  cli,         \* run_quotebot: program counter and local variables
  ss,          \* st.session_state of the Streamlit session
  log,         \* history: the status values written to each row, in order
  calls,       \* history: service invocations per project
  modified,    \* history: projects for which a replacement was accepted
  mods,        \* history: modifications typed so far
  last,        \* history: the operation that produced this state
  pricing,     \* the pricing table in rowid order, each row as its
               \* position in pricing_data
  today,       \* what datetime.date.today() returns
  returned,    \* history: the ids create_new_project returned, in order
  result       \* history: the last direct call of a store or tool function

vars == <<db, driver, cli, ss, log, calls, modified, mods, last,
          pricing, today, returned, result>>
\* what the two drivers' steps leave alone
api == <<pricing, today, returned, result>>

\* ---------------------------------------------------------------- record store
\* a variant that writes empty text where the statement names no column
NewRow_EmptyText(request) ==
  [customer_request |-> request, extracted_details |-> Str("", "raw"),
   quote_draft |-> NULL, final_quote |-> NULL, email_draft |-> NULL,
   availability_info |-> NULL, status |-> "pending_extraction"]

NewRow(request) ==
  [customer_request |-> request, extracted_details |-> NULL,
   quote_draft |-> NULL, final_quote |-> NULL, email_draft |-> NULL,
   availability_info |-> NULL, status |-> "pending_extraction"]

\* INSERT INTO projects (project_id, customer_request, status)
create_new_project(d, id, request) ==
  [p \in (DOMAIN d) \cup {id} |-> IF p = id THEN NewRow(request) ELSE d[p]]

\* a variant whose UPDATE has no WHERE clause
save_project_state_all(d, id, fields) ==
  [p \in DOMAIN d |->
     [k \in DOMAIN d[p] |-> IF k \in DOMAIN fields THEN fields[k] ELSE d[p][k]]]

\* a variant that rewrites the whole row from the named fields
save_project_state_replace(d, id, fields) ==
  [p \in DOMAIN d |->
     IF p = id
       THEN [k \in DOMAIN d[p] |->
               IF k \in DOMAIN fields THEN fields[k]
               ELSE IF k = "customer_request" THEN d[p][k] ELSE NULL]
       ELSE d[p]]

\* a variant that inserts the row when the UPDATE matches none
save_project_state_upsert(d, id, fields) ==
  [p \in (DOMAIN d) \cup {id} |->
     LET row == IF p \in DOMAIN d THEN d[p] ELSE NewRow("")
     IN  IF p = id
           THEN [k \in DOMAIN row |-> IF k \in DOMAIN fields THEN fields[k] ELSE row[k]]
           ELSE row]

\* UPDATE projects SET k = v, ... WHERE project_id = ?  (fields: a function
\* from column names to values; a missing row matches nothing)
save_project_state(d, id, fields) ==
  [p \in DOMAIN d |->
     IF p = id
       THEN [k \in DOMAIN d[p] |-> IF k \in DOMAIN fields THEN fields[k] ELSE d[p][k]]
       ELSE d[p]]

\* history of status writes that goes with a sequence of saves
Logged(l, id, statuses) ==
  [p \in DOMAIN l |-> IF p = id THEN l[p] \o statuses ELSE l[p]]

Called(c, id, services) ==
  [p \in DOMAIN c |->
     IF p = id
       THEN [s \in DOMAIN c[p] |-> IF s \in services THEN c[p][s] + 1 ELSE c[p][s]]
       ELSE c[p]]

NoCalls == [extract |-> 0, quote |-> 0, avail |-> 0, email |-> 0]

F1(k, v) == [x \in {k} |-> v]
F2(k1, v1, k2, v2) == [x \in {k1, k2} |-> IF x = k1 THEN v1 ELSE v2]


\* uuid.uuid4(): identifiers are opaque, so of the identifiers not yet in the
\* table one stands for all of them; a draw may also repeat a stored one
Min(S) == CHOOSE x \in S : \A y \in S : x <= y
uuid4(d) ==
  (DOMAIN d) \cup (IF ProjectIds \ DOMAIN d = {} THEN {} ELSE {Min(ProjectIds \ DOMAIN d)})

\* ---------------------------------------------------------------- pricing
\* the rows insert_initial_pricing_data passes to executemany:
\* <<item_type, material, unit_cost, unit>>, unit_cost in cents
pricing_data ==
  <<<<"power_unit", "PP650", 120000, "unit">>,
    <<"power_unit", "PP600", 95000, "unit">>,
    <<"power_unit", "PP500", 70000, "unit">>,
    <<"hose", "30ft_Crushproof", 15000, "unit">>,
    <<"hose", "50ft_Retractable", 35000, "unit">>,
    <<"hose", "60ft_Retractable", 40000, "unit">>,
    <<"attachment_set", "Bare_Floor_Set", 12000, "unit">>,
    <<"attachment_set", "Carpet_Comb_Electric_Pigtail_Set", 25000, "unit">>,
    <<"attachment_set", "Premium_Tool_Kit", 18000, "unit">>,
    <<"part", "HEPA_Filter", 7500, "unit">>,
    <<"part", "Disposable_Bag_Pack", 4000, "unit">>,
    <<"part", "Brush_Roll_Replacement", 6000, "unit">>,
    <<"part", "Motor_Assembly", 45000, "unit">>,
    <<"part", "Low_Voltage_Wiring", 350, "linear_ft">>,
    <<"service", "New_System_Installation", 75000, "flat_fee">>,
    <<"service", "Additional_Inlet_Installation", 25000, "unit">>,
    <<"service", "Service_Call_Diagnostic", 12000, "flat_fee">>,
    <<"service", "Labor_Rate", 8500, "per_hour">>,
    <<"service", "System_Tune_Up", 18000, "flat_fee">>,
    <<"service", "Clog_Removal", 15000, "flat_fee">>,
    <<"service", "Motor_Replacement_Labor", 17000, "flat_fee">>,
    <<"service", "Shipping_Standard", 5000, "flat_fee">>>>

\* The table only ever holds rows of pricing_data: a stored row is kept as
\* its position n in pricing_data.
\* PRIMARY KEY (item_type, material)
PricingKey(n) == <<pricing_data[n][1], pricing_data[n][2]>>
HasPricingKey(table, key) == \E i \in DOMAIN table : PricingKey(table[i]) = key

\* a variant of the statement without the conflict clause and of the table
\* without the key: every row is added
RECURSIVE executemany_insert(_, _)
executemany_insert(table, rows) ==
  IF rows = <<>> THEN table
  ELSE executemany_insert(Append(table, Head(rows)), Tail(rows))

\* executemany("INSERT OR IGNORE INTO pricing VALUES (?, ?, ?, ?)", rows):
\* a row whose key is in the table is skipped
RECURSIVE executemany_insert_or_ignore(_, _)
executemany_insert_or_ignore(table, rows) ==
  IF rows = <<>> THEN table
  ELSE executemany_insert_or_ignore(
         IF HasPricingKey(table, PricingKey(Head(rows)))
           THEN table ELSE Append(table, Head(rows)),
         Tail(rows))

insert_initial_pricing_data(table) ==
  executemany_insert_or_ignore(table, [n \in DOMAIN pricing_data |-> n])

\* SELECT item_type, material, unit_cost, unit FROM pricing; fetchall()
get_pricing_data(table) == [i \in DOMAIN table |-> pricing_data[table[i]]]

\* ---------------------------------------------------------------- direct calls
\* SELECT * FROM projects WHERE project_id = ?: the row as a dict, or None
\* (the timestamp column is left out of the model)
get_project_details_default(d, id) ==
  IF id \in DOMAIN d THEN [project_id |-> id, row |-> d[id]]
  ELSE [project_id |-> id, row |-> NewRow("")]

get_project_details(d, id) ==
  IF id \in DOMAIN d THEN [project_id |-> id, row |-> d[id]] ELSE PyNone

Today0 == <<2024, 1, 1>>
NoResult == [op |-> "none"]

\* ---------------------------------------------------------------- Init
CliIdle ==
  [pc |-> "idle", pid |-> NoProject, request |-> "", data |-> PyNone,
   approved_details |-> PyNone]

\* the defaults written when a key is not in st.session_state
SessionDefaults ==
  [project_id |-> NoProject, customer_request |-> "", extracted_details |-> PyNone,
   approved_details |-> PyNone, quote_draft |-> PyNone, final_quote |-> PyNone,
   availability_info |-> PyNone, email_draft |-> PyNone, final_email |-> PyNone,
   current_step |-> "input_request", busy |-> "no"]

Init ==
  /\ db = <<>>
  /\ driver \in {"cli", "app"}
  /\ cli = CliIdle
  /\ ss = SessionDefaults
  /\ log = <<>>
  /\ calls = <<>>
  /\ modified = {}
  /\ mods = 0
  /\ last = [op |-> "init", pid |-> NoProject]
  /\ pricing = insert_initial_pricing_data(<<>>)
  /\ today = Today0
  /\ returned = <<>>
  /\ result = NoResult

\* the process has ended: its locals are gone, only the way it ended and the
\* project it worked on are kept
CliExit(how) == [CliIdle EXCEPT !.pc = how, !.pid = cli.pid]

Op(name, id) == [op |-> name, pid |-> id]

\* ---------------------------------------------------------------- main.py
\* run_quotebot up to the extraction call: read the request, create the
\* project, enter analyze_request_step.  uuid4 draws id; INSERT raises
\* IntegrityError on a project_id that is already a primary key.
CliStart(request, id) ==
  /\ driver = "cli"
  /\ cli.pc \in {"idle", "done", "crashed"}
  /\ IF id \in DOMAIN db
       THEN /\ cli' = [CliIdle EXCEPT !.pc = "crashed"]
            /\ last' = Op("cli_create_raised", NoProject)
            /\ UNCHANGED <<db, log, calls>>
       ELSE /\ db' = create_new_project(db, id, request)
            /\ log' = [p \in DOMAIN db' |->
                         IF p = id THEN <<"pending_extraction">> ELSE log[p]]
            /\ calls' = [p \in DOMAIN db' |->
                           IF p = id THEN [NoCalls EXCEPT !.extract = 1] ELSE calls[p]]
            /\ cli' = [CliIdle EXCEPT !.pc = "call_extract", !.pid = id,
                                      !.request = request]
            /\ last' = Op("cli_create", id)
  /\ UNCHANGED <<driver, ss, modified, mods>>
  /\ UNCHANGED api

\* analyze_request_step, the chain raised: except branch
CliExtractRaises ==
  /\ driver = "cli" /\ cli.pc = "call_extract"
  /\ db' = save_project_state(db, cli.pid, F1("status", "extraction_failed"))
  /\ log' = Logged(log, cli.pid, <<"extraction_failed">>)
  /\ cli' = CliExit("done")
  /\ last' = Op("cli_extract_raised", cli.pid)
  /\ UNCHANGED <<driver, ss, calls, modified, mods>>
  /\ UNCHANGED api

\* analyze_request_step, the chain returned v; run_quotebot returns when
\* the step's result is None, otherwise enters human_approval
CliExtractReturns(v) ==
  /\ driver = "cli" /\ cli.pc = "call_extract"
  /\ db' = save_project_state(db, cli.pid,
             F2("extracted_details", json_dumps(v),
                "status", "pending_extraction_approval"))
  /\ log' = Logged(log, cli.pid, <<"pending_extraction_approval">>)
  /\ cli' = IF v = PyNone THEN CliExit("done")
            ELSE [cli EXCEPT !.pc = "gate_details", !.data = v]
  /\ last' = Op("cli_extract_returned", cli.pid)
  /\ UNCHANGED <<driver, ss, calls, modified, mods>>
  /\ UNCHANGED api

CliGates == {"gate_details", "gate_quote", "gate_email"}

\* a variant whose abort branch lacks the return at the first gate
CliReject_NoReturn ==
  /\ driver = "cli" /\ cli.pc \in CliGates
  /\ db' = save_project_state(db, cli.pid, F1("status", "aborted_by_human"))
  /\ log' = Logged(log, cli.pid, <<"aborted_by_human">>)
  /\ IF cli.pc = "gate_details"
       THEN /\ cli' = [cli EXCEPT !.pc = "call_quote", !.approved_details = cli.data]
            /\ calls' = Called(calls, cli.pid, {"quote"})
       ELSE /\ cli' = CliExit("done")
            /\ UNCHANGED calls
  /\ last' = Op("cli_reject", cli.pid)
  /\ UNCHANGED <<driver, ss, modified, mods>>
  /\ UNCHANGED api

\* human_approval, choice 'n': returns None; run_quotebot saves the abort
CliReject ==
  /\ driver = "cli" /\ cli.pc \in CliGates
  /\ db' = save_project_state(db, cli.pid, F1("status", "aborted_by_human"))
  /\ log' = Logged(log, cli.pid, <<"aborted_by_human">>)
  /\ cli' = CliExit("done")
  /\ last' = Op("cli_reject", cli.pid)
  /\ UNCHANGED <<driver, ss, calls, modified, mods>>
  /\ UNCHANGED api

\* a variant that takes the typed text as the new value when it does not parse
human_approval_modify_unparsed(data, text) ==
  IF IsDict(data) /\ Parses(text) THEN json_loads(text) ELSE text

\* human_approval, choice 'm' with the typed text: a dict is replaced by
\* what the text parses to (and the prompt repeats when it does not parse);
\* anything else is replaced by the text itself
human_approval_modify(data, text) ==
  IF IsDict(data)
    THEN IF Parses(text) THEN json_loads(text) ELSE data
    ELSE text

CliModify(text) ==
  /\ driver = "cli" /\ cli.pc \in CliGates
  /\ mods < MaxModify
  /\ text \in (CASE cli.pc = "gate_details" -> TypedDetails
                 [] cli.pc = "gate_quote" -> TypedQuote
                 [] OTHER -> TypedEmail)
  /\ cli' = [cli EXCEPT !.data = human_approval_modify(cli.data, text)]
  /\ mods' = mods + 1
  /\ modified' = IF cli'.data # cli.data THEN modified \cup {cli.pid} ELSE modified
  /\ last' = Op(IF cli.pc # "gate_email" /\ ~Parses(text)
                  THEN "cli_modify_malformed" ELSE "cli_modify", cli.pid)
  /\ UNCHANGED <<db, driver, ss, log, calls>>
  /\ UNCHANGED api

\* run_quotebot after human_approval returned None although the human
\* answered 'y' (the approved value itself is None): same branch as a reject
CliAbortOnNone(opname) ==
  /\ db' = save_project_state(db, cli.pid, F1("status", "aborted_by_human"))
  /\ log' = Logged(log, cli.pid, <<"aborted_by_human">>)
  /\ cli' = CliExit("done")
  /\ last' = Op(opname, cli.pid)
  /\ UNCHANGED calls

\* human_approval 'y' at the extracted-details gate, then run_quotebot up to
\* the quoting call inside generate_quote_step
CliApproveDetails ==
  /\ driver = "cli" /\ cli.pc = "gate_details"
  /\ IF cli.data = PyNone
       THEN CliAbortOnNone("cli_approve_none")
       ELSE /\ db' = save_project_state(db, cli.pid,
                       F2("extracted_details", json_dumps(cli.data),
                          "status", "extracted_details_approved"))
            /\ log' = Logged(log, cli.pid, <<"extracted_details_approved">>)
            /\ calls' = Called(calls, cli.pid, {"quote"})
            /\ cli' = [cli EXCEPT !.pc = "call_quote", !.approved_details = cli.data]
            /\ last' = Op("cli_approve_details", cli.pid)
  /\ UNCHANGED <<driver, ss, modified, mods>>
  /\ UNCHANGED api

\* generate_quote_step, the chain raised
CliQuoteRaises ==
  /\ driver = "cli" /\ cli.pc = "call_quote"
  /\ db' = save_project_state(db, cli.pid, F1("status", "quote_failed"))
  /\ log' = Logged(log, cli.pid, <<"quote_failed">>)
  /\ cli' = CliExit("done")
  /\ last' = Op("cli_quote_raised", cli.pid)
  /\ UNCHANGED <<driver, ss, calls, modified, mods>>
  /\ UNCHANGED api

\* a variant that saves the draft without the status
CliQuoteReturns_NoStatus(v) ==
  /\ driver = "cli" /\ cli.pc = "call_quote"
  /\ db' = save_project_state(db, cli.pid, F1("quote_draft", json_dumps(v)))
  /\ cli' = IF v = PyNone THEN CliExit("done")
            ELSE [cli EXCEPT !.pc = "gate_quote", !.data = v]
  /\ last' = Op("cli_quote_returned", cli.pid)
  /\ UNCHANGED <<log, driver, ss, calls, modified, mods>>
  /\ UNCHANGED api

\* generate_quote_step, the chain returned v
CliQuoteReturns(v) ==
  /\ driver = "cli" /\ cli.pc = "call_quote"
  /\ db' = save_project_state(db, cli.pid,
             F2("quote_draft", json_dumps(v), "status", "pending_quote_approval"))
  /\ log' = Logged(log, cli.pid, <<"pending_quote_approval">>)
  /\ cli' = IF v = PyNone THEN CliExit("done")
            ELSE [cli EXCEPT !.pc = "gate_quote", !.data = v]
  /\ last' = Op("cli_quote_returned", cli.pid)
  /\ UNCHANGED <<driver, ss, calls, modified, mods>>
  /\ UNCHANGED api

\* the service names run_quotebot / app.py derive from the final quote and
\* the availability they look up with them
\* ", ".join(service_types_requested) for each quote of this model
ServiceTypesOf ==
  [j \in DictNames |-> JoinNames(FilterServices(QuoteItems(j)))]

AvailabilityFor(final_quote) ==
  AvailabilityValue(check_availability_tool(ServiceTypesOf[final_quote.j], today))

\* human_approval 'y' at the quote gate, then run_quotebot up to the email
\* call inside draft_email_step; final_quote.get raises AttributeError on a
\* value that is not a dict
CliApproveQuote ==
  /\ driver = "cli" /\ cli.pc = "gate_quote"
  /\ IF cli.data = PyNone
       THEN CliAbortOnNone("cli_approve_none")
       ELSE IF ~IsDict(cli.data)
       THEN /\ db' = save_project_state(db, cli.pid,
                       F2("final_quote", json_dumps(cli.data),
                          "status", "quote_approved"))
            /\ log' = Logged(log, cli.pid, <<"quote_approved">>)
            /\ cli' = CliExit("crashed")
            /\ last' = Op("cli_approve_quote_raised", cli.pid)
            /\ UNCHANGED calls
       ELSE /\ db' = save_project_state(
                       save_project_state(db, cli.pid,
                         F2("final_quote", json_dumps(cli.data),
                            "status", "quote_approved")),
                       cli.pid,
                       F2("availability_info", json_dumps(AvailabilityFor(cli.data)),
                          "status", "availability_checked"))
            /\ log' = Logged(log, cli.pid, <<"quote_approved", "availability_checked">>)
            /\ calls' = Called(calls, cli.pid, {"avail", "email"})
            /\ cli' = [cli EXCEPT !.pc = "call_email"]
            /\ last' = Op("cli_approve_quote", cli.pid)
  /\ UNCHANGED <<driver, ss, modified, mods>>
  /\ UNCHANGED api

\* a variant whose except branch saves nothing
CliEmailRaises_NoSave ==
  /\ driver = "cli" /\ cli.pc = "call_email"
  /\ cli' = CliExit("done")
  /\ last' = Op("cli_email_raised", cli.pid)
  /\ UNCHANGED <<db, log, driver, ss, calls, modified, mods>>
  /\ UNCHANGED api

\* draft_email_step, the chain raised
CliEmailRaises ==
  /\ driver = "cli" /\ cli.pc = "call_email"
  /\ db' = save_project_state(db, cli.pid, F1("status", "email_draft_failed"))
  /\ log' = Logged(log, cli.pid, <<"email_draft_failed">>)
  /\ cli' = CliExit("done")
  /\ last' = Op("cli_email_raised", cli.pid)
  /\ UNCHANGED <<driver, ss, calls, modified, mods>>
  /\ UNCHANGED api

\* draft_email_step, the chain (StrOutputParser) returned the str s
CliEmailReturns(s) ==
  /\ driver = "cli" /\ cli.pc = "call_email"
  /\ db' = save_project_state(db, cli.pid,
             F2("email_draft", s, "status", "pending_email_approval"))
  /\ log' = Logged(log, cli.pid, <<"pending_email_approval">>)
  /\ cli' = [cli EXCEPT !.pc = "gate_email", !.data = s]
  /\ last' = Op("cli_email_returned", cli.pid)
  /\ UNCHANGED <<driver, ss, calls, modified, mods>>
  /\ UNCHANGED api

\* human_approval 'y' at the email gate, then run_quotebot to its end: two
\* saves, status email_approved and then status completed
CliApproveEmail ==
  /\ driver = "cli" /\ cli.pc = "gate_email"
  /\ db' = save_project_state(
             save_project_state(db, cli.pid,
               F2("email_draft", cli.data, "status", "email_approved")),
             cli.pid, F1("status", "completed"))
  /\ log' = Logged(log, cli.pid, <<"email_approved", "completed">>)
  /\ cli' = CliExit("done")
  /\ last' = Op("cli_approve_email", cli.pid)
  /\ UNCHANGED <<driver, ss, calls, modified, mods>>
  /\ UNCHANGED api

CliNext ==
  \/ \E r \in Requests, id \in uuid4(db) : CliStart(r, id)
  \/ CliExtractRaises
  \/ \E v \in ExtractOutcomes : CliExtractReturns(v)
  \/ CliReject
  \/ \E t \in TypedDetails \cup TypedQuote \cup TypedEmail : CliModify(t)
  \/ CliApproveDetails
  \/ CliQuoteRaises
  \/ \E v \in QuoteOutcomes : CliQuoteReturns(v)
  \/ CliApproveQuote
  \/ CliEmailRaises
  \/ \E s \in EmailOutcomes : CliEmailReturns(s)
  \/ CliApproveEmail

\* ---------------------------------------------------------------- app.py
\* The services app.py imports from main (analyze_request, generate_quote,
\* draft_email) are not defined in main.py; app.py tests their results for
\* truth, so a failed call is a falsy result.
AppExtractOutcomes == ExtractOutcomes
AppQuoteOutcomes == QuoteOutcomes
AppEmailOutcomes == EmailOutcomes \cup {PyNone}

\* "Analyze Request" with a non-empty request, up to the analyze_request call
AppAnalyzeClick(request, id) ==
  /\ driver = "app"
  /\ ss.current_step = "input_request" /\ ss.busy = "no"
  /\ IF id \in DOMAIN db
       THEN /\ ss' = [ss EXCEPT !.customer_request = request]
            /\ last' = Op("app_create_raised", NoProject)
            /\ UNCHANGED <<db, log, calls>>
       ELSE /\ db' = create_new_project(db, id, request)
            /\ log' = [p \in DOMAIN db' |->
                         IF p = id THEN <<"pending_extraction">> ELSE log[p]]
            /\ calls' = [p \in DOMAIN db' |->
                           IF p = id THEN [NoCalls EXCEPT !.extract = 1] ELSE calls[p]]
            /\ ss' = [ss EXCEPT !.customer_request = request, !.project_id = id,
                                !.busy = "extract"]
            /\ last' = Op("app_create", id)
  /\ UNCHANGED <<driver, cli, modified, mods>>
  /\ UNCHANGED api

\* analyze_request returned v: the rest of the "Analyze Request" handler
AppAnalyzeReturns(v) ==
  /\ driver = "app"
  /\ ss.current_step = "input_request" /\ ss.busy = "extract"
  /\ IF ~Falsy(v)
       THEN /\ db' = save_project_state(db, ss.project_id,
                       F2("extracted_details", json_dumps(v),
                          "status", "pending_extraction_approval"))
            /\ log' = Logged(log, ss.project_id, <<"pending_extraction_approval">>)
            /\ ss' = [ss EXCEPT !.extracted_details = v, !.busy = "no",
                                !.current_step = "review_extracted"]
            /\ last' = Op("app_extract_returned", ss.project_id)
       ELSE /\ db' = save_project_state(db, ss.project_id,
                       F1("status", "extraction_failed"))
            /\ log' = Logged(log, ss.project_id, <<"extraction_failed">>)
            /\ ss' = [ss EXCEPT !.extracted_details = v, !.busy = "no"]
            /\ last' = Op("app_extract_failed", ss.project_id)
  /\ UNCHANGED <<driver, cli, calls, modified, mods>>
  /\ UNCHANGED api

\* what the human leaves in a text area: the text shown, or a typed one
Entered(shown, typed) == {shown} \cup (IF mods < MaxModify THEN typed ELSE {})

\* "Approve Extracted Details" with the content of the text area
AppApproveExtracted(text) ==
  /\ driver = "app"
  /\ ss.current_step = "review_extracted"
  /\ text \in Entered(json_dumps_indent(ss.extracted_details), TypedDetails)
  /\ mods' = IF text \in TypedDetails THEN mods + 1 ELSE mods
  /\ IF Parses(text)
       THEN /\ db' = save_project_state(db, ss.project_id,
                       F2("extracted_details", json_dumps(json_loads(text)),
                          "status", "extracted_details_approved"))
            /\ log' = Logged(log, ss.project_id, <<"extracted_details_approved">>)
            /\ ss' = [ss EXCEPT !.approved_details = json_loads(text),
                                !.current_step = "generate_quote"]
            /\ modified' = IF json_loads(text) # ss.extracted_details
                             THEN modified \cup {ss.project_id} ELSE modified
            /\ last' = Op("app_approve_extracted", ss.project_id)
       ELSE /\ last' = Op("app_modify_malformed", ss.project_id)
            /\ UNCHANGED <<db, log, ss, modified>>
  /\ UNCHANGED <<driver, cli, calls>>
  /\ UNCHANGED api

\* a variant whose reject is also offered while the quote is being generated
AppReject_AnyStep ==
  /\ driver = "app"
  /\ ss.current_step \in {"review_extracted", "generate_quote", "review_quote",
                          "review_email"}
  /\ db' = save_project_state(db, ss.project_id, F1("status", "aborted_by_human"))
  /\ log' = Logged(log, ss.project_id, <<"aborted_by_human">>)
  /\ ss' = SessionDefaults
  /\ last' = Op("app_reject", ss.project_id)
  /\ UNCHANGED <<driver, cli, calls, modified, mods>>
  /\ UNCHANGED api

\* the three "Reject ... & Abort Project" buttons
AppReject ==
  /\ driver = "app"
  /\ ss.current_step \in {"review_extracted", "review_quote", "review_email"}
  /\ db' = save_project_state(db, ss.project_id, F1("status", "aborted_by_human"))
  /\ log' = Logged(log, ss.project_id, <<"aborted_by_human">>)
  /\ ss' = SessionDefaults
  /\ last' = Op("app_reject", ss.project_id)
  /\ UNCHANGED <<driver, cli, calls, modified, mods>>
  /\ UNCHANGED api

\* variants of the failure branch: back to the review page of the same
\* project, and staying on the step so that the next rerun calls again
AppGenerateQuote_Failed(v, step) ==
  /\ driver = "app"
  /\ ss.current_step = "generate_quote"
  /\ calls' = Called(calls, ss.project_id, {"quote"})
  /\ IF ~Falsy(v)
       THEN /\ db' = save_project_state(db, ss.project_id,
                       F2("quote_draft", json_dumps(v),
                          "status", "pending_quote_approval"))
            /\ log' = Logged(log, ss.project_id, <<"pending_quote_approval">>)
            /\ ss' = [ss EXCEPT !.quote_draft = v, !.current_step = "review_quote"]
            /\ last' = Op("app_quote_returned", ss.project_id)
       ELSE /\ db' = save_project_state(db, ss.project_id, F1("status", "quote_failed"))
            /\ log' = Logged(log, ss.project_id, <<"quote_failed">>)
            /\ ss' = [ss EXCEPT !.quote_draft = v, !.current_step = step]
            /\ last' = Op("app_quote_failed", ss.project_id)
  /\ UNCHANGED <<driver, cli, modified, mods>>
  /\ UNCHANGED api

AppGenerateQuote_BackToReview(v) == AppGenerateQuote_Failed(v, "review_extracted")

AppGenerateQuote_Retry(v) == AppGenerateQuote_Failed(v, "generate_quote")

\* step generate_quote: generate_quote(approved_details) returned v
AppGenerateQuote(v) ==
  /\ driver = "app"
  /\ ss.current_step = "generate_quote"
  /\ calls' = Called(calls, ss.project_id, {"quote"})
  /\ IF ~Falsy(v)
       THEN /\ db' = save_project_state(db, ss.project_id,
                       F2("quote_draft", json_dumps(v),
                          "status", "pending_quote_approval"))
            /\ log' = Logged(log, ss.project_id, <<"pending_quote_approval">>)
            /\ ss' = [ss EXCEPT !.quote_draft = v, !.current_step = "review_quote"]
            /\ last' = Op("app_quote_returned", ss.project_id)
       ELSE /\ db' = save_project_state(db, ss.project_id, F1("status", "quote_failed"))
            /\ log' = Logged(log, ss.project_id, <<"quote_failed">>)
            /\ ss' = [ss EXCEPT !.quote_draft = v, !.current_step = "input_request"]
            /\ last' = Op("app_quote_failed", ss.project_id)
  /\ UNCHANGED <<driver, cli, modified, mods>>
  /\ UNCHANGED api

\* a variant that stores the text area as it is, parsed or not
AppApproveQuote_NoValidate(text) ==
  /\ driver = "app"
  /\ ss.current_step = "review_quote"
  /\ text \in Entered(json_dumps_indent(ss.quote_draft), TypedQuote)
  /\ mods' = IF text \in TypedQuote THEN mods + 1 ELSE mods
  /\ db' = save_project_state(db, ss.project_id,
             F2("final_quote", text, "status", "quote_approved"))
  /\ log' = Logged(log, ss.project_id, <<"quote_approved">>)
  /\ ss' = [ss EXCEPT !.final_quote = IF Parses(text) THEN json_loads(text) ELSE text,
                      !.current_step = "check_availability_and_draft_email"]
  /\ modified' = modified
  /\ last' = Op(IF Parses(text) THEN "app_approve_quote" ELSE "app_modify_malformed",
                ss.project_id)
  /\ UNCHANGED <<driver, cli, calls>>
  /\ UNCHANGED api

\* a variant whose approval saves the status without the final quote
AppApproveQuote_StatusOnly(text) ==
  /\ driver = "app"
  /\ ss.current_step = "review_quote"
  /\ text \in Entered(json_dumps_indent(ss.quote_draft), TypedQuote)
  /\ mods' = IF text \in TypedQuote THEN mods + 1 ELSE mods
  /\ IF Parses(text)
       THEN /\ db' = save_project_state(db, ss.project_id,
                       F1("status", "quote_approved"))
            /\ log' = Logged(log, ss.project_id, <<"quote_approved">>)
            /\ ss' = [ss EXCEPT !.final_quote = json_loads(text),
                                !.current_step = "check_availability_and_draft_email"]
            /\ modified' = IF json_loads(text) # ss.quote_draft
                             THEN modified \cup {ss.project_id} ELSE modified
            /\ last' = Op("app_approve_quote", ss.project_id)
       ELSE /\ last' = Op("app_modify_malformed", ss.project_id)
            /\ UNCHANGED <<db, log, ss, modified>>
  /\ UNCHANGED <<driver, cli, calls>>
  /\ UNCHANGED api

\* "Approve Quote" with the content of the text area
AppApproveQuote(text) ==
  /\ driver = "app"
  /\ ss.current_step = "review_quote"
  /\ text \in Entered(json_dumps_indent(ss.quote_draft), TypedQuote)
  /\ mods' = IF text \in TypedQuote THEN mods + 1 ELSE mods
  /\ IF Parses(text)
       THEN /\ db' = save_project_state(db, ss.project_id,
                       F2("final_quote", json_dumps(json_loads(text)),
                          "status", "quote_approved"))
            /\ log' = Logged(log, ss.project_id, <<"quote_approved">>)
            /\ ss' = [ss EXCEPT !.final_quote = json_loads(text),
                                !.current_step = "check_availability_and_draft_email"]
            /\ modified' = IF json_loads(text) # ss.quote_draft
                             THEN modified \cup {ss.project_id} ELSE modified
            /\ last' = Op("app_approve_quote", ss.project_id)
       ELSE /\ last' = Op("app_modify_malformed", ss.project_id)
            /\ UNCHANGED <<db, log, ss, modified>>
  /\ UNCHANGED <<driver, cli, calls>>
  /\ UNCHANGED api

\* a variant that calls draft_email without having saved the availability
AppCheckAvailability_NoSave ==
  /\ driver = "app"
  /\ ss.current_step = "check_availability_and_draft_email" /\ ss.busy = "no"
  /\ IF ~IsDict(ss.final_quote)
       THEN /\ ss' = [ss EXCEPT !.busy = "error"]
            /\ last' = Op("app_availability_raised", ss.project_id)
            /\ UNCHANGED <<db, log, calls>>
       ELSE /\ calls' = Called(calls, ss.project_id, {"avail", "email"})
            /\ ss' = [ss EXCEPT !.availability_info = AvailabilityFor(ss.final_quote),
                                !.busy = "email"]
            /\ last' = Op("app_availability", ss.project_id)
            /\ UNCHANGED <<db, log>>
  /\ UNCHANGED <<driver, cli, modified, mods>>
  /\ UNCHANGED api

\* step check_availability_and_draft_email up to the draft_email call;
\* final_quote.get raises AttributeError on a value that is not a dict and
\* the script run ends there, as does every rerun
AppCheckAvailability ==
  /\ driver = "app"
  /\ ss.current_step = "check_availability_and_draft_email" /\ ss.busy = "no"
  /\ IF ~IsDict(ss.final_quote)
       THEN /\ ss' = [ss EXCEPT !.busy = "error"]
            /\ last' = Op("app_availability_raised", ss.project_id)
            /\ UNCHANGED <<db, log, calls>>
       ELSE /\ db' = save_project_state(db, ss.project_id,
                       F2("availability_info",
                          json_dumps(AvailabilityFor(ss.final_quote)),
                          "status", "availability_checked"))
            /\ log' = Logged(log, ss.project_id, <<"availability_checked">>)
            /\ calls' = Called(calls, ss.project_id, {"avail", "email"})
            /\ ss' = [ss EXCEPT !.availability_info = AvailabilityFor(ss.final_quote),
                                !.busy = "email"]
            /\ last' = Op("app_availability", ss.project_id)
  /\ UNCHANGED <<driver, cli, modified, mods>>
  /\ UNCHANGED api

\* draft_email returned s: the rest of the step
AppDraftEmailReturns(s) ==
  /\ driver = "app"
  /\ ss.current_step = "check_availability_and_draft_email" /\ ss.busy = "email"
  /\ IF ~Falsy(s)
       THEN /\ db' = save_project_state(db, ss.project_id,
                       F2("email_draft", s, "status", "pending_email_approval"))
            /\ log' = Logged(log, ss.project_id, <<"pending_email_approval">>)
            /\ ss' = [ss EXCEPT !.email_draft = s, !.busy = "no",
                                !.current_step = "review_email"]
            /\ last' = Op("app_email_returned", ss.project_id)
       ELSE /\ db' = save_project_state(db, ss.project_id,
                       F1("status", "email_draft_failed"))
            /\ log' = Logged(log, ss.project_id, <<"email_draft_failed">>)
            /\ ss' = [ss EXCEPT !.email_draft = s, !.busy = "no",
                                !.current_step = "input_request"]
            /\ last' = Op("app_email_failed", ss.project_id)
  /\ UNCHANGED <<driver, cli, calls, modified, mods>>
  /\ UNCHANGED api

\* "Approve Email & Complete Project" with the content of the text area
AppApproveEmail(text) ==
  /\ driver = "app"
  /\ ss.current_step = "review_email"
  /\ text \in Entered(ss.email_draft, TypedEmail)
  /\ mods' = IF text \in TypedEmail THEN mods + 1 ELSE mods
  /\ db' = save_project_state(db, ss.project_id,
             F2("email_draft", text, "status", "completed"))
  /\ log' = Logged(log, ss.project_id, <<"completed">>)
  /\ ss' = [ss EXCEPT !.final_email = text, !.current_step = "completed"]
  /\ modified' = IF text # ss.email_draft
                   THEN modified \cup {ss.project_id} ELSE modified
  /\ last' = Op("app_approve_email", ss.project_id)
  /\ UNCHANGED <<driver, cli, calls>>
  /\ UNCHANGED api

\* "Start New Project" on the completed page
AppStartNewProject ==
  /\ driver = "app"
  /\ ss.current_step = "completed"
  /\ ss' = SessionDefaults
  /\ last' = Op("app_start_new", ss.project_id)
  /\ UNCHANGED <<db, driver, cli, log, calls, modified, mods>>
  /\ UNCHANGED api

\* sidebar "Reset All": drawn by every script run that reaches its last lines
AppResetAll ==
  /\ driver = "app"
  /\ ss.busy = "no"
  /\ ss.current_step \in {"input_request", "review_extracted", "review_quote",
                          "review_email", "completed"}
  /\ ss' = SessionDefaults
  /\ last' = Op("app_reset_all", ss.project_id)
  /\ UNCHANGED <<db, driver, cli, log, calls, modified, mods>>
  /\ UNCHANGED api

AppNext ==
  \/ \E r \in Requests, id \in uuid4(db) : AppAnalyzeClick(r, id)
  \/ \E v \in AppExtractOutcomes : AppAnalyzeReturns(v)
  \/ \E t \in {json_dumps_indent(ss.extracted_details)} \cup TypedDetails :
       AppApproveExtracted(t)
  \/ AppReject
  \/ \E v \in AppQuoteOutcomes : AppGenerateQuote(v)
  \/ \E t \in {json_dumps_indent(ss.quote_draft)} \cup TypedQuote : AppApproveQuote(t)
  \/ AppCheckAvailability
  \/ \E s \in AppEmailOutcomes : AppDraftEmailReturns(s)
  \/ \E t \in {ss.email_draft} \cup TypedEmail : AppApproveEmail(t)
  \/ AppStartNewProject
  \/ AppResetAll

Next == CliNext \/ AppNext

Spec == Init /\ [][Next]_vars

\* ================================================================ direct calls
\* The functions of database.py and the availability tool called directly,
\* in any order and with any arguments, as a test or another module would.
drivers == <<driver, cli, ss, log, calls, modified, mods, last>>

IdleDrivers ==
  /\ driver = "none"
  /\ cli = CliIdle
  /\ ss = SessionDefaults
  /\ log = <<>>
  /\ calls = <<>>
  /\ modified = {}
  /\ mods = 0
  /\ last = [op |-> "init", pid |-> NoProject]

Call(op, arg, val, raised) == [op |-> op, arg |-> arg, val |-> val, raised |-> raised]

\* ---------------------------------------------------------------- database.py
StoreRequests == {"R1", "R2"}
\* ids a caller may pass: those of the pool and None
StoreIds == ProjectIds \cup {NoProject}
\* keyword arguments of save_project_state
SaveInputs ==
  {F1("status", "aborted_by_human"),
   F2("extracted_details", Str("D1", "compact"), "status", "pending_extraction_approval"),
   F1("email_draft", Str("E1", "raw")),
   <<>>}

\* the state after init_db()
StoreInit ==
  /\ IdleDrivers
  /\ db = <<>>
  /\ pricing = <<>>
  /\ today = Today0
  /\ returned = <<>>
  /\ result = NoResult

\* a variant whose INSERT replaces the row of a project_id that is stored
StoreCreate_Replace(request, id) ==
  /\ db' = create_new_project(db, id, request)
  /\ returned' = Append(returned, id)
  /\ result' = Call("create_new_project", request, id, FALSE)
  /\ UNCHANGED <<drivers, pricing, today>>

\* create_new_project(request); uuid4 draws id, and INSERT raises
\* IntegrityError on a project_id that is already a primary key
StoreCreate(request, id) ==
  /\ IF id \in DOMAIN db
       THEN /\ result' = Call("create_new_project", request, NoProject, TRUE)
            /\ UNCHANGED <<db, returned>>
       ELSE /\ db' = create_new_project(db, id, request)
            /\ returned' = Append(returned, id)
            /\ result' = Call("create_new_project", request, id, FALSE)
  /\ UNCHANGED <<drivers, pricing, today>>

\* save_project_state(id, **fields); with no keyword argument the statement
\* "UPDATE projects SET  WHERE ..." raises OperationalError
StoreSave(id, fields) ==
  /\ db' = IF DOMAIN fields = {} THEN db ELSE save_project_state(db, id, fields)
  /\ result' = Call("save_project_state", <<id, fields>>, PyNone, DOMAIN fields = {})
  /\ UNCHANGED <<drivers, pricing, today, returned>>

\* get_project_details(id)
StoreGet(id) ==
  /\ result' = Call("get_project_details", id, get_project_details(db, id), FALSE)
  /\ UNCHANGED <<drivers, db, pricing, today, returned>>

\* insert_initial_pricing_data()
StoreInsertPricing ==
  /\ pricing' = insert_initial_pricing_data(pricing)
  /\ result' = Call("insert_initial_pricing_data",
                  IF pricing = <<>> THEN "first" ELSE "again", PyNone, FALSE)
  /\ UNCHANGED <<drivers, db, today, returned>>

\* get_pricing_data()
StoreGetPricing ==
  /\ result' = Call("get_pricing_data", <<>>, get_pricing_data(pricing), FALSE)
  /\ UNCHANGED <<drivers, db, pricing, today, returned>>

StoreNext ==
  \/ \E r \in StoreRequests, id \in uuid4(db) : StoreCreate(r, id)
  \/ \E id \in StoreIds, f \in SaveInputs : StoreSave(id, f)
  \/ \E id \in StoreIds : StoreGet(id)
  \/ StoreInsertPricing
  \/ StoreGetPricing

StoreSpec == StoreInit /\ [][StoreNext]_vars

\* ---------------------------------------------------------------- main.py
\* service names a caller may pass to check_availability_tool
TextCarpetComb ==
  <<"C", "a", "r", "p", "e", "t", "_", "C", "o", "m", "b">>
TextMotorRepair ==
  <<"M", "O", "T", "O", "R", " ", "R", "E", "P", "A", "I", "R">>
TextSystemTuneUp ==
  <<"S", "y", "s", "t", "e", "m", "_", "T", "u", "n", "e", "_", "U", "p">>
TextTuneUp ==
  <<"T", "u", "n", "e", "-", "U", "p">>
TextServices ==
  <<"S", "e", "r", "v", "i", "c", "e", "s">>
TextRepai ==
  <<"R", "e", "p", "a", "i">>
ServiceInputs ==
  {ItemInstallation, TextCarpetComb, <<>>, TextMotorRepair, TextSystemTuneUp,
   TextTuneUp, TextServices, TextRepai}

\* days on which a call may be made
DateInputs ==
  {<<2024, 1, 1>>, <<2023, 12, 28>>, <<2024, 2, 26>>, <<2023, 2, 25>>,
   <<2024, 4, 27>>, <<2100, 2, 26>>}

ToolInit ==
  /\ IdleDrivers
  /\ db = <<>>
  /\ pricing = <<>>
  /\ today \in DateInputs
  /\ returned = <<>>
  /\ result = NoResult

\* the system clock shows another day
ToolClock(t) ==
  /\ t # today
  /\ today' = t
  /\ UNCHANGED <<drivers, db, pricing, returned, result>>

\* check_availability_tool(service_type)
ToolCheck(service_type) ==
  /\ result' = [op |-> "check_availability_tool", arg |-> service_type,
                today |-> today,
                val |-> check_availability_tool(service_type, today)]
  /\ UNCHANGED <<drivers, db, pricing, today, returned>>

ToolNext ==
  \/ \E t \in DateInputs : ToolClock(t)
  \/ \E s \in ServiceInputs : ToolCheck(s)

ToolSpec == ToolInit /\ [][ToolNext]_vars

\* ================================================================ claims
Rows == DOMAIN db
Artifacts ==
  {"extracted_details", "quote_draft", "final_quote", "availability_info",
   "email_draft"}
FailedStatuses == {"extraction_failed", "quote_failed", "email_draft_failed"}

ApproveSequence ==
  <<"pending_extraction", "pending_extraction_approval",
    "extracted_details_approved", "pending_quote_approval", "quote_approved",
    "availability_checked", "pending_email_approval", "completed">>

\* C1: a project that ran to completed (every service call succeeded, every
\* gate was approved) had exactly the eight statuses of the table written to
\* its row, in the table's order, and no other status in between.
C1_StatusSequence ==
  \A p \in Rows : db[p].status = "completed" => log[p] = ApproveSequence

\* C2: a reject at a gate leaves the row at aborted_by_human, and from then
\* on the row keeps that status and no service is called for the project.
C2_RejectAborts ==
  [][/\ last'.op \in {"cli_reject", "app_reject"}
          => db'[last'.pid].status = "aborted_by_human"
     /\ \A p \in Rows :
          db[p].status = "aborted_by_human"
            => calls'[p] = calls[p] /\ db'[p].status = "aborted_by_human"]_vars

C2_Witness ==
  /\ last.op \in {"cli_reject", "app_reject"}
  /\ db[last.pid].status = "aborted_by_human"
  /\ calls[last.pid].quote = 1

C4_TerminalAbsorbing ==
  [][\A p \in Rows : db[p].status \in TerminalStatuses => db'[p] = db[p]]_vars

C4_Witness ==
  \E p, r \in Rows :
    /\ p # r
    /\ db[p].status \in FailedStatuses
    /\ db[r].status = "completed"

\* C5: a replacement that does not parse, entered at the extracted-details or
\* the quote gate, changes no row and leaves the workflow at the same gate.
C5_MalformedKeepsRecord ==
  [][last'.op \in {"cli_modify_malformed", "app_modify_malformed"} /\ mods' # mods
       => /\ db' = db
          /\ log' = log
          /\ calls' = calls
          /\ cli'.pc = cli.pc
          /\ ss'.current_step = ss.current_step]_vars

C5_Witness ==
  /\ last.op \in {"cli_modify_malformed", "app_modify_malformed"}
  /\ db[last.pid].status = "pending_quote_approval"

\* a TEXT cell holding the compact JSON text of an object
IsObjectText(c) == c.ty = "str" /\ c.q = 0 /\ c.fmt = "compact" /\ c.j \in DictNames

Approved(p, status) == \E i \in 1..Len(log[p]) : log[p][i] = status

\* C6: what a gate persists as human-approved extracted_details or as
\* final_quote always has the shape of the artifact (a JSON object): a
\* replacement of another shape is never accepted and never stored.
C6_OnlySchemaShaped ==
  \A p \in Rows :
    /\ Approved(p, "extracted_details_approved")
         => IsObjectText(db[p].extracted_details)
    /\ db[p].final_quote # NULL => IsObjectText(db[p].final_quote)

\* C7: in a project where no replacement was accepted, an artifact field
\* that has been written keeps its value in every later step; and no step of
\* any project sets a written artifact field back to NULL.
C7_ArtifactsKept ==
  [][\A p \in Rows : \A f \in Artifacts :
       db[p][f] # NULL
         => /\ db'[p][f] # NULL
            /\ p \notin modified' => db'[p][f] = db[p][f]]_vars

C7_Witness ==
  \E p \in Rows :
    /\ p \notin modified
    /\ db[p].status = "completed"
    /\ \A f \in Artifacts : db[p][f] # NULL

\* C8: run_quotebot never stops working on a project (by returning or by an
\* uncaught exception) while the status of the project is not a terminal one.
C8_NoStopBeforeTerminal ==
  cli.pc \in {"done", "crashed"} /\ cli.pid \in Rows
    => db[cli.pid].status \in TerminalStatuses

\* C9: at a gate the row's status is the matching pending_*_approval, and
\* while a service call is in progress it is the status of the step before
\* (pending_extraction, extracted_details_approved, availability_checked).
StatusOf(id) == IF id \in Rows THEN db[id].status ELSE "no row"

C9_PersistedBeforeMovingOn ==
  /\ cli.pc = "call_extract" => StatusOf(cli.pid) = "pending_extraction"
  /\ cli.pc = "gate_details" => StatusOf(cli.pid) = "pending_extraction_approval"
  /\ cli.pc = "call_quote" => StatusOf(cli.pid) = "extracted_details_approved"
  /\ cli.pc = "gate_quote" => StatusOf(cli.pid) = "pending_quote_approval"
  /\ cli.pc = "call_email" => StatusOf(cli.pid) = "availability_checked"
  /\ cli.pc = "gate_email" => StatusOf(cli.pid) = "pending_email_approval"
  /\ ss.busy = "extract" => StatusOf(ss.project_id) = "pending_extraction"
  /\ ss.current_step = "review_extracted"
       => StatusOf(ss.project_id) = "pending_extraction_approval"
  /\ ss.current_step = "generate_quote"
       => StatusOf(ss.project_id) = "extracted_details_approved"
  /\ ss.current_step = "review_quote"
       => StatusOf(ss.project_id) = "pending_quote_approval"
  /\ ss.busy = "email" => StatusOf(ss.project_id) = "availability_checked"
  /\ ss.current_step = "review_email"
       => StatusOf(ss.project_id) = "pending_email_approval"

C9_Witness ==
  \/ cli.pc = "gate_quote" /\ StatusOf(cli.pid) = "pending_quote_approval"
                           /\ cli.data # json_loads(db[cli.pid].quote_draft)
  \/ ss.busy = "email" /\ StatusOf(ss.project_id) = "availability_checked"

\* C10: each of the Extraction, Quoting and Email Drafting services is called
\* at most once per project, the Extraction Service only when the row is
\* created, and a new run works on a row that did not exist before.
C10_NoRetry ==
  [][/\ \A p \in DOMAIN db' :
          calls'[p].extract <= 1 /\ calls'[p].quote <= 1 /\ calls'[p].email <= 1
     /\ \A p \in Rows : calls'[p].extract = calls[p].extract
     /\ last'.op \in {"cli_create", "app_create"} /\ calls' # calls
          => /\ last'.pid \notin Rows
             /\ Cardinality(DOMAIN db') = Cardinality(Rows) + 1]_vars

C10_Witness ==
  \E p, r \in Rows :
    /\ p # r
    /\ db[p].status \in FailedStatuses
    /\ db[p].customer_request = db[r].customer_request
    /\ calls[p].extract = 1 /\ calls[r].extract = 1
    /\ calls[r].quote = 1

\* ---------------------------------------------------------------- C11
\* C11: the ids create_new_project has returned are pairwise distinct, each
\* names a record of the table, and the table holds one record per returned
\* id: every call that returns, returns an id no earlier call returned.
ReturnedIds == {returned[i] : i \in DOMAIN returned}
C11_FreshIds ==
  /\ \A i, k \in DOMAIN returned : i # k => returned[i] # returned[k]
  /\ ReturnedIds = DOMAIN db
  /\ Cardinality(DOMAIN db) = Len(returned)
  /\ result.op = "create_new_project" /\ ~result.raised
       => result.val = returned[Len(returned)]

\* two ids were returned and a later draw repeated one of them
C11_Witness ==
  /\ Len(returned) >= 2
  /\ result.op = "create_new_project" /\ result.raised

\* ---------------------------------------------------------------- C12
\* C12: a call of create_new_project that returns adds exactly one record,
\* under the returned id, with customer_request equal to the given text,
\* status pending_extraction and the five artifact fields null; every
\* record that existed before is unchanged.
C12_CreateAddsOneRecord ==
  [][result'.op = "create_new_project" /\ ~result'.raised
       => /\ result'.val \notin DOMAIN db
          /\ DOMAIN db' = DOMAIN db \cup {result'.val}
          /\ db'[result'.val] =
               [customer_request |-> result'.arg, status |-> "pending_extraction",
                extracted_details |-> NULL, quote_draft |-> NULL,
                final_quote |-> NULL, availability_info |-> NULL,
                email_draft |-> NULL]
          /\ \A p \in DOMAIN db : db'[p] = db[p]]_vars

\* a record was created while another record had already moved on
C12_Witness ==
  /\ result.op = "create_new_project" /\ ~result.raised
  /\ \E p \in DOMAIN db :
       /\ p # result.val
       /\ db[p].status # "pending_extraction"
       /\ db[p].customer_request # db[result.val].customer_request

\* ---------------------------------------------------------------- C13
\* C13: get_project_details returns None for an id create_new_project never
\* returned, and for a returned id the complete record as it stands.
C13_UnknownIsNone ==
  result.op = "get_project_details"
    => IF result.arg \in ReturnedIds
         THEN /\ result.val # PyNone
              /\ result.val.project_id = result.arg
              /\ result.val.row = db[result.arg]
         ELSE result.val = PyNone

\* an unknown id was looked up in a table that holds records
C13_Witness ==
  /\ result.op = "get_project_details"
  /\ result.arg \notin ReturnedIds
  /\ returned # <<>>

\* ---------------------------------------------------------------- C14
\* C14: save_project_state sets the named fields of the named record and
\* nothing else: its other fields, every other record and the set of
\* records stay as they were.
C14_SaveMergesNamed ==
  [][result'.op = "save_project_state"
       => /\ DOMAIN db' = DOMAIN db
          /\ \A p \in DOMAIN db : \A k \in DOMAIN db[p] :
               db'[p][k] = IF p = result'.arg[1] /\ k \in DOMAIN result'.arg[2]
                             THEN result'.arg[2][k] ELSE db[p][k]]_vars

\* a save on one of two records, naming a field the other record holds
\* differently and leaving a written field of its own unnamed
C14_Witness ==
  /\ result.op = "save_project_state" /\ ~result.raised
  /\ result.arg[1] \in DOMAIN db
  /\ "extracted_details" \notin DOMAIN result.arg[2]
  /\ db[result.arg[1]].extracted_details # NULL
  /\ \E p \in DOMAIN db : \E k \in DOMAIN result.arg[2] :
       p # result.arg[1] /\ db[p][k] # result.arg[2][k]

\* ---------------------------------------------------------------- C15
\* C15: once insert_initial_pricing_data has run, however often, the table
\* and what get_pricing_data returns are what a single run on the empty
\* table gives: one entry for each key (item_type, material) of the data,
\* no key twice.
CatalogKey(row) == <<row[1], row[2]>>
CatalogKeys(rows) == {CatalogKey(rows[i]) : i \in DOMAIN rows}
C15_PricingIdempotent ==
  /\ result.op = "insert_initial_pricing_data" => pricing # <<>>
  /\ pricing # <<>>
       => /\ pricing = insert_initial_pricing_data(<<>>)
          /\ \A i, k \in DOMAIN pricing :
               i # k => CatalogKey(get_pricing_data(pricing)[i])
                          # CatalogKey(get_pricing_data(pricing)[k])
          /\ CatalogKeys(get_pricing_data(pricing)) = CatalogKeys(pricing_data)
  /\ result.op = "get_pricing_data" /\ pricing # <<>>
       => /\ result.val = get_pricing_data(insert_initial_pricing_data(<<>>))
          /\ Len(result.val) = Cardinality(CatalogKeys(pricing_data))

\* the data was loaded into a table that held it already
C15_Witness ==
  /\ result.op = "insert_initial_pricing_data"
  /\ result.arg = "again"

\* ---------------------------------------------------------------- C16
\* the service names of ServiceInputs that hold "installation", "service",
\* "tune-up" or "repair" when case is ignored, and the days 3, 5 and 7 days
\* after each day of DateInputs, both written out by hand
NamesWithKeyword == {ItemInstallation, TextMotorRepair, TextTuneUp, TextServices}
DaysAfter(t) ==
  CASE t = <<2024, 1, 1>> -> <<<<2024, 1, 4>>, <<2024, 1, 6>>, <<2024, 1, 8>>>>
    [] t = <<2023, 12, 28>> -> <<<<2023, 12, 31>>, <<2024, 1, 2>>, <<2024, 1, 4>>>>
    [] t = <<2024, 2, 26>> -> <<<<2024, 2, 29>>, <<2024, 3, 2>>, <<2024, 3, 4>>>>
    [] t = <<2023, 2, 25>> -> <<<<2023, 2, 28>>, <<2023, 3, 2>>, <<2023, 3, 4>>>>
    [] t = <<2024, 4, 27>> -> <<<<2024, 4, 30>>, <<2024, 5, 2>>, <<2024, 5, 4>>>>
    [] t = <<2100, 2, 26>> -> <<<<2100, 3, 1>>, <<2100, 3, 3>>, <<2100, 3, 5>>>>

\* C16: check_availability_tool returns, for service names that hold one of
\* the four keywords in any case, exactly three slots dated today+3, today+5
\* and today+7 in that order, each with a non-empty time window; for any
\* other service names the empty slot list; and a non-empty note either way.
C16_ThreeSlotsOrNone ==
  result.op = "check_availability_tool"
    => /\ result.val.note # ""
       /\ IF result.arg \in NamesWithKeyword
            THEN /\ Len(result.val.available_slots) = 3
                 /\ \A i \in 1..3 :
                      /\ result.val.available_slots[i].date = DaysAfter(result.today)[i]
                      /\ result.val.available_slots[i].time # ""
            ELSE result.val.available_slots = <<>>

\* slots were returned for a name that has capital letters, on a day whose
\* slots fall into the next year
C16_Witness ==
  /\ result.op = "check_availability_tool"
  /\ result.arg = ItemInstallation
  /\ result.today = <<2023, 12, 28>>
  /\ Len(result.val.available_slots) = 3

\* ---------------------------------------------------------------- C18
\* C18: every quote stored as quote_draft or final_quote has
\* total_estimated_cost = subtotal + shipping, whether a service returned it
\* or a human typed it at the quote gate.
C18_TotalIsSum ==
  \A p \in Rows : \A f \in {"quote_draft", "final_quote"} :
    IsObjectText(db[p][f]) /\ db[p][f].j \in QuoteNames
      => QuoteAmounts(db[p][f].j).total
           = QuoteAmounts(db[p][f].j).subtotal + QuoteAmounts(db[p][f].j).shipping

\* ---------------------------------------------------------------- C19
\* C19: the text a gate shows for an extracted-details or quote value
\* parses back to that value, so as long as nobody has typed a replacement
\* what a gate persists on approval is the value the service produced: the
\* final quote is the quote draft, and the approved details are the
\* extracted details.
AfterQuoteGate == {"check_availability_and_draft_email", "review_email", "completed"}
C20_SlotsIffServiceLine ==
  \A p \in Rows :
    db[p].availability_info # NULL
      => /\ IsObjectText(db[p].final_quote)
         /\ IF \E i \in DOMAIN QuoteItems(db[p].final_quote.j) :
                 QuoteItems(db[p].final_quote.j)[i] \in NamesWithKeyword
              THEN db[p].availability_info = json_dumps(Val("A_slots"))
              ELSE db[p].availability_info = json_dumps(Val("A_none"))

\* one project got slots for its installation line, another got none
C20_Witness ==
  \E p, r \in Rows :
    /\ db[p].availability_info = json_dumps(Val("A_slots"))
    /\ db[r].availability_info = json_dumps(Val("A_none"))

\* ---------------------------------------------------------------- C21
\* C21: a service is called only at its stage and on confirmed inputs.  A
\* project whose quote was requested has had its details approved, one whose
\* availability was looked up has had its quote approved, and one whose email
\* was requested has its availability_info stored.  While a driver waits for
\* the Quoting Service, the details it passed are the ones the record holds
\* as approved; while it waits for the Email Drafting Service, the details,
\* the final quote and the availability it passed are the ones the record
\* holds.
C21_CallsAtStage ==
  /\ \A p \in Rows :
       /\ calls[p].quote > 0 => Approved(p, "extracted_details_approved")
       /\ calls[p].avail > 0 => Approved(p, "quote_approved")
       /\ calls[p].email > 0 =>
            /\ db[p].availability_info # NULL
            /\ Approved(p, "availability_checked")
  /\ (driver = "cli" /\ cli.pc = "call_quote") =>
       /\ db[cli.pid].status = "extracted_details_approved"
       /\ db[cli.pid].extracted_details = json_dumps(cli.approved_details)
  /\ (driver = "cli" /\ cli.pc = "call_email") =>
       /\ db[cli.pid].extracted_details = json_dumps(cli.approved_details)
       /\ db[cli.pid].final_quote = json_dumps(cli.data)
       /\ db[cli.pid].availability_info = json_dumps(AvailabilityFor(cli.data))
  /\ (driver = "app" /\ ss.current_step = "generate_quote") =>
       /\ db[ss.project_id].status = "extracted_details_approved"
       /\ db[ss.project_id].extracted_details = json_dumps(ss.approved_details)
  /\ (driver = "app" /\ ss.busy = "email") =>
       /\ db[ss.project_id].extracted_details = json_dumps(ss.approved_details)
       /\ db[ss.project_id].final_quote = json_dumps(ss.final_quote)
       /\ db[ss.project_id].availability_info = json_dumps(ss.availability_info)
       /\ db[ss.project_id].customer_request = ss.customer_request

\* the Email Drafting Service is being called for a project whose three
\* earlier stages were approved
C21_Witness ==
  \E p \in Rows :
    /\ calls[p].quote > 0 /\ calls[p].avail > 0 /\ calls[p].email > 0
    /\ db[p].status = "availability_checked"
    /\ \/ driver = "cli" /\ cli.pc = "call_email" /\ cli.pid = p
       \/ driver = "app" /\ ss.busy = "email" /\ ss.project_id = p

\* ---------------------------------------------------------------- C22
GateStatuses ==
  {"pending_extraction_approval", "pending_quote_approval", "pending_email_approval"}

\* the status a record held when the i-th status of its log was written
WrittenFrom(p, i) == log[p][i - 1]

\* C22: aborted_by_human is written only over one of the three gate
\* statuses, extraction_failed only over pending_extraction, quote_failed only
\* over extracted_details_approved and email_draft_failed only over
\* availability_checked.
C22_WrittenFromStage ==
  \A p \in Rows : \A i \in 2..Len(log[p]) :
    /\ log[p][i] = "aborted_by_human" => WrittenFrom(p, i) \in GateStatuses
    /\ log[p][i] = "extraction_failed" => WrittenFrom(p, i) = "pending_extraction"
    /\ log[p][i] = "quote_failed" => WrittenFrom(p, i) = "extracted_details_approved"
    /\ log[p][i] = "email_draft_failed" => WrittenFrom(p, i) = "availability_checked"

\* both an abort and a failure status have been written
C22_Witness ==
  /\ \E p \in Rows : db[p].status = "aborted_by_human" /\ Len(log[p]) >= 3
  /\ \E p \in Rows : db[p].status \in FailedStatuses /\ Len(log[p]) >= 2

\* ---------------------------------------------------------------- C23
\* the status sequences app.py persists: the approve sequence cut at any
\* stage, or cut and closed by the failure or abort status of that stage
StreamlitStatusLogs ==
  LET Cut(k) == SubSeq(ApproveSequence, 1, k)
  IN  {Cut(k) : k \in 1..Len(ApproveSequence)}
        \cup {Append(Cut(1), "extraction_failed"),
              Append(Cut(2), "aborted_by_human"),
              Append(Cut(3), "quote_failed"),
              Append(Cut(4), "aborted_by_human"),
              Append(Cut(6), "email_draft_failed"),
              Append(Cut(7), "aborted_by_human")}

\* C23: the two drivers are equivalent.  The same service outcomes and human
\* decisions make run_quotebot and the Streamlit step machine persist the same
\* sequence of status values: every status sequence either driver persists
\* for a project is one the Streamlit step machine persists for those
\* outcomes and decisions.
C23_DriversAgree ==
  \A p \in Rows : log[p] \in StreamlitStatusLogs

\* the Streamlit driver alone stays within its status sequences
C23_StreamlitAlone ==
  driver = "app" => C23_DriversAgree

\* ---------------------------------------------------------------- C24
\* C24: the artifact columns of every record are filled in stage order.  A
\* stored quote_draft comes with stored extracted_details, a stored
\* final_quote with a stored quote_draft, a stored availability_info with a
\* stored final_quote and a stored email_draft with a stored
\* availability_info; a completed record has all five stored.
C24_FilledInStageOrder ==
  \A p \in Rows :
    /\ db[p].quote_draft # NULL => db[p].extracted_details # NULL
    /\ db[p].final_quote # NULL => db[p].quote_draft # NULL
    /\ db[p].availability_info # NULL => db[p].final_quote # NULL
    /\ db[p].email_draft # NULL => db[p].availability_info # NULL
    /\ db[p].status = "completed" =>
         /\ db[p].extracted_details # NULL /\ db[p].quote_draft # NULL
         /\ db[p].final_quote # NULL /\ db[p].availability_info # NULL
         /\ db[p].email_draft # NULL

\* one record is completed while another stopped with only part of the
\* columns filled
C24_Witness ==
  /\ \E p \in Rows : db[p].status = "completed" /\ db[p].email_draft # NULL
  /\ \E p \in Rows : db[p].quote_draft # NULL /\ db[p].final_quote = NULL

\* ---------------------------------------------------------------- C25
\* C25: at a gate of the command-line driver an approve answer never aborts
\* the project.  Whenever the step just taken left a project of that driver
\* at aborted_by_human, the step was the human's reject answer at the gate,
\* whatever value was proposed there.
C25_AbortOnlyOnReject ==
  driver = "cli" =>
    \A p \in Rows :
      (last.pid = p /\ db[p].status = "aborted_by_human") => last.op = "cli_reject"

\* ---------------------------------------------------------------- C26
\* C26: at a gate of the command-line driver a modification never passes the
\* gate by itself.  A modify answer leaves the driver at the same gate and
\* the record, its status log and the calls untouched; a replacement for a
\* dict that does not parse leaves the proposed value as it was; and what an
\* approve answer hands to the workflow and the record is the value proposed
\* at that moment.
C26_ModifyNeedsApproval ==
  [][driver = "cli" =>
       /\ mods' = mods + 1 =>
            /\ cli.pc \in CliGates /\ cli'.pc = cli.pc
            /\ db' = db /\ log' = log /\ calls' = calls
       /\ (mods' = mods + 1 /\ IsDict(cli.data)
             /\ last'.op = "cli_modify_malformed") => cli'.data = cli.data
       /\ last'.op = "cli_approve_details" =>
            /\ cli.pc = "gate_details"
            /\ cli'.approved_details = cli.data
            /\ db'[cli.pid].extracted_details = json_dumps(cli.data)
       /\ last'.op \in {"cli_approve_quote", "cli_approve_quote_raised"} =>
            /\ cli.pc = "gate_quote"
            /\ db'[cli.pid].final_quote = json_dumps(cli.data)
       /\ last'.op = "cli_approve_email" =>
            /\ cli.pc = "gate_email"
            /\ db'[cli.pid].email_draft = cli.data]_vars

\* the human approved the details after two modify answers, one of which
\* replaced the proposed value
C26_Witness ==
  /\ driver = "cli" /\ last.op = "cli_approve_details"
  /\ mods >= 2 /\ cli.pid \in modified
  /\ db[cli.pid].extracted_details = json_dumps(cli.approved_details)

\* ---------------------------------------------------------------- C27
\* C27: the Streamlit session never drops a project at a status that is not
\* terminal.  Every record other than the session's current project (dropped
\* by a reject, by Start New Project, by Reset All or by the next Analyze
\* Request) is completed, aborted_by_human or at one of the failed statuses.
C27_DroppedAtTerminal ==
  driver = "app" =>
    \A p \in Rows : p # ss.project_id => db[p].status \in TerminalStatuses

\* ---------------------------------------------------------------- C28
\* C28: records are created only by create_new_project.  A save_project_state
\* call for a project_id that has no record leaves the store as it was; the
\* set of records changes only in a create_new_project call that returns, so
\* there are as many records as returned calls; and a record, once created,
\* keeps its project_id and its customer_request.
C28_OnlyCreateMakesRecords ==
  [][/\ (result'.op = "save_project_state" /\ result'.arg[1] \notin DOMAIN db)
          => db' = db
     /\ DOMAIN db' # DOMAIN db
          => result'.op = "create_new_project" /\ ~result'.raised
     /\ Cardinality(DOMAIN db') = Len(returned')
     /\ \A p \in DOMAIN db :
          /\ p \in DOMAIN db'
          /\ db'[p].customer_request = db[p].customer_request]_vars

\* a save that named columns was made for an id that has no record while
\* another record existed, and that record was changed by an earlier save
C28_Witness ==
  /\ result.op = "save_project_state" /\ ~result.raised
  /\ result.arg[1] \in ProjectIds \ DOMAIN db
  /\ \E p \in DOMAIN db : db[p].status # "pending_extraction"

====
